---- MODULE Spec2Model ----
(***************************************************************************)
(* Model of the two runnable pieces of src/unnamed/part_000:               *)
(*   - the animated grid stylesheet (lines 1-110): the cascade that gives  *)
(*     every .card child its grid-area and animation-delay, the            *)
(*     grid-template-areas map, and the cardEffect entry animation on the  *)
(*     document timeline;                                                  *)
(*   - the useReducer counter example (lines 271-291).                     *)
(* Times are in milliseconds.  The star emoji area name is written "star". *)
(***************************************************************************)
EXTENDS Integers, Sequences, FiniteSets

VARIABLES
    cards,           \* number of .card children of .animated-grid
    override,        \* a --stagger-delay set closer to the cards, if any
    pc,              \* "loaded" (styles not yet resolved) or "rendered"
    gridArea,        \* computed grid-area of each card
    animationDelay,  \* computed animation-delay of each card, ms
    now,             \* document timeline, ms since the cards were rendered
    phase,           \* animation phase of each card
    visual,          \* what each card shows
    state,           \* the useReducer state
    nInc,            \* 'increment' actions dispatched so far
    nDec,            \* 'decrement' actions dispatched so far
    threw            \* the reducer threw

gridVars == <<cards, override, pc, gridArea, animationDelay, now, phase, visual>>
reducerVars == <<state, nInc, nDec, threw>>
vars == <<cards, override, pc, gridArea, animationDelay, now, phase, visual,
          state, nInc, nDec, threw>>

(***************************************************************************)
(* Bounds of the model.                                                    *)
(***************************************************************************)
MaxCards == 15
FrameMs == 50
MaxDispatch == 12

\* an override is << >> (none) or <<ms>>
Unset == << >>
Units == {-100, -50, 0, 50, 100}
Overrides == {Unset} \cup {<<u>> : u \in Units}

(***************************************************************************)
(* .animated-grid: the template and the custom property.                   *)
(***************************************************************************)
\* the star area spilled into a neighbour's cell
GridTemplateAreasSpilled ==
    << <<"a", "b",    "c",    "d">>,
       <<"l", "star", "star", "e">>,
       <<"k", "star", "star", "star">>,
       <<"j", "i",    "h",    "g">> >>

GridTemplateAreas ==
    << <<"a", "b",    "c",    "d">>,
       <<"l", "star", "star", "e">>,
       <<"k", "star", "star", "f">>,
       <<"j", "i",    "h",    "g">> >>

TemplateRows == Len(GridTemplateAreas)
TemplateCols == Len(GridTemplateAreas[1])
TemplateCells == (1..TemplateRows) \X (1..TemplateCols)

\* the cells a named area covers
AreaCells(area) ==
    {rc \in TemplateCells : GridTemplateAreas[rc[1]][rc[2]] = area}

AreaNames == {GridTemplateAreas[rc[1]][rc[2]] : rc \in TemplateCells}

DefaultStaggerDelay == 100

\* custom properties inherit: the cards see the container's 100ms unless a
\* declaration closer to them sets another value
StaggerDelayNoDefault(o) == IF o = Unset THEN 0 ELSE o[1]

StaggerDelay(o) == IF o = Unset THEN DefaultStaggerDelay ELSE o[1]

(***************************************************************************)
(* The rules on .card, in source order.  A delay is <<k, "var">> for       *)
(* calc(k * var(--stagger-delay)) and <<k, "ms">> for a plain time.        *)
(***************************************************************************)
Undeclared == "undeclared"

Rules ==
    << [sel |-> "nth-child",  n |-> 1,  area |-> "a",    delay |-> <<1, "var">>],
       [sel |-> "nth-child",  n |-> 2,  area |-> "b",    delay |-> <<2, "var">>],
       [sel |-> "nth-child",  n |-> 3,  area |-> "c",    delay |-> <<3, "var">>],
       [sel |-> "nth-child",  n |-> 4,  area |-> "d",    delay |-> <<4, "var">>],
       [sel |-> "nth-child",  n |-> 5,  area |-> "e",    delay |-> <<5, "var">>],
       [sel |-> "nth-child",  n |-> 6,  area |-> "f",    delay |-> <<6, "var">>],
       [sel |-> "nth-child",  n |-> 7,  area |-> "g",    delay |-> <<7, "var">>],
       [sel |-> "nth-child",  n |-> 8,  area |-> "h",    delay |-> <<8, "var">>],
       [sel |-> "nth-child",  n |-> 9,  area |-> "i",    delay |-> <<9, "var">>],
       [sel |-> "nth-child",  n |-> 10, area |-> "j",    delay |-> <<10, "var">>],
       [sel |-> "nth-child",  n |-> 11, area |-> "k",    delay |-> <<11, "var">>],
       [sel |-> "nth-child",  n |-> 12, area |-> "l",    delay |-> <<12, "var">>],
       [sel |-> "last-child", n |-> 0,  area |-> "star", delay |-> <<13, "var">>],
       \* .card: the animation shorthand also sets animation-delay, to 0s
       [sel |-> "card",       n |-> 0,  area |-> Undeclared, delay |-> <<0, "ms">>] >>

\* .card:nth-child(k) and .card:last-child: a class and a pseudo-class;
\* .card: a class
Specificity(rule) == IF rule.sel = "card" THEN 1 ELSE 2

\* whether card i of n matches the rule's selector
MatchesLastFrom13(rule, i, n) ==
    CASE rule.sel = "nth-child"  -> i = rule.n
      [] rule.sel = "last-child" -> i >= 13
      [] OTHER                   -> TRUE

MatchesOffByOne(rule, i, n) ==
    CASE rule.sel = "nth-child"  -> i = rule.n + 1
      [] rule.sel = "last-child" -> i = n
      [] OTHER                   -> TRUE

Matches(rule, i, n) ==
    CASE rule.sel = "nth-child"  -> i = rule.n
      [] rule.sel = "last-child" -> i = n
      [] OTHER                   -> TRUE

Declares(rule, prop) ==
    \/ prop = "animation-delay"
    \/ prop = "grid-area" /\ rule.area # Undeclared

\* rule k wins over rule m: higher specificity, then later in the source
PrevailsFirstWins(k, m) ==
    \/ Specificity(Rules[k]) > Specificity(Rules[m])
    \/ Specificity(Rules[k]) = Specificity(Rules[m]) /\ k <= m

PrevailsSourceOrderOnly(k, m) == k >= m

Prevails(k, m) ==
    \/ Specificity(Rules[k]) > Specificity(Rules[m])
    \/ Specificity(Rules[k]) = Specificity(Rules[m]) /\ k >= m

Candidates(prop, i, n) ==
    {k \in 1..Len(Rules) : Matches(Rules[k], i, n) /\ Declares(Rules[k], prop)}

Winner(prop, i, n) ==
    CHOOSE k \in Candidates(prop, i, n) :
        \A m \in Candidates(prop, i, n) : Prevails(k, m)

\* grid-area is not inherited; its initial value is auto
ComputedGridArea(i, n) ==
    IF Candidates("grid-area", i, n) = {} THEN "auto"
    ELSE Rules[Winner("grid-area", i, n)].area

DelayValueIgnoresVar(d, u) == d[1] * DefaultStaggerDelay

DelayValue(d, u) == IF d[2] = "var" THEN d[1] * u ELSE d[1]

ComputedAnimationDelay(i, n, u) ==
    DelayValue(Rules[Winner("animation-delay", i, n)].delay, u)

(***************************************************************************)
(* Grid placement: a card with a named area takes that area's cells; the   *)
(* cards left on auto are then placed, in order, in the first free cells   *)
(* in row-major order, in implicit rows once the template is full.         *)
(***************************************************************************)
AutoRows(n) == TemplateRows + n
CellIndex(rc) == (rc[1] - 1) * TemplateCols + rc[2]

Occupied(areas) ==
    UNION {AreaCells(areas[i]) : i \in DOMAIN areas}

AutoCell(i, areas) ==
    LET n == Len(areas)
        free == {rc \in (1..AutoRows(n)) \X (1..TemplateCols) : rc \notin Occupied(areas)}
        rank == Cardinality({j \in 1..i : areas[j] = "auto"})
    IN  CHOOSE rc \in free :
            Cardinality({x \in free : CellIndex(x) < CellIndex(rc)}) = rank - 1

Placement(i, areas) ==
    IF areas[i] = "auto" THEN {AutoCell(i, areas)} ELSE AreaCells(areas[i])

(***************************************************************************)
(* .card: animation: cardEffect 700ms ease-out; fill-mode backwards.       *)
(***************************************************************************)
Duration == 700

\* opacity and scale in percent, hue-rotate in degrees
KeyframeFrom == [opacity |-> 0, scale |-> 30, hue |-> 180]
KeyframeTo == [opacity |-> 100, scale |-> 100, hue |-> 0]
\* a card with no animation applied: opacity 1, no transform, no filter
BaseStyle == [opacity |-> 100, scale |-> 100, hue |-> 0]
Interpolated == [opacity |-> "eased", scale |-> "eased", hue |-> "eased"]

PhaseAtRestarts(delay, t) ==
    IF t < delay \/ t >= delay + Duration THEN "pending"
    ELSE "running"

PhaseAt(delay, t) ==
    IF t < delay THEN "pending"
    ELSE IF t < delay + Duration THEN "running"
    ELSE "finished"

\* fill-mode backwards: the from keyframe applies during the delay; nothing
\* of the animation applies after its end
VisualAtFillNone(delay, t) ==
    IF t < delay THEN BaseStyle
    ELSE IF t = delay THEN KeyframeFrom
    ELSE IF t < delay + Duration THEN Interpolated
    ELSE BaseStyle

VisualAt(delay, t) ==
    IF t <= delay THEN KeyframeFrom
    ELSE IF t < delay + Duration THEN Interpolated
    ELSE BaseStyle

(***************************************************************************)
(* The page: style resolution, then the frames of the timeline.            *)
(***************************************************************************)
GridInit ==
    /\ cards \in 1..MaxCards
    /\ override \in Overrides
    /\ pc = "loaded"
    /\ gridArea = << >>
    /\ animationDelay = << >>
    /\ now = 0
    /\ phase = << >>
    /\ visual = << >>

ResolveStyle ==
    /\ pc = "loaded"
    /\ pc' = "rendered"
    /\ gridArea' = [i \in 1..cards |-> ComputedGridArea(i, cards)]
    /\ animationDelay' =
         [i \in 1..cards |-> ComputedAnimationDelay(i, cards, StaggerDelay(override))]
    /\ now' = 0
    /\ phase' = [i \in 1..cards |-> PhaseAt(animationDelay'[i], 0)]
    /\ visual' = [i \in 1..cards |-> VisualAt(animationDelay'[i], 0)]
    /\ UNCHANGED <<cards, override>>
    /\ UNCHANGED reducerVars

\* the timeline advances while an animation is pending or running
Frame ==
    /\ pc = "rendered"
    /\ \E i \in 1..cards : phase[i] # "finished"
    /\ now' = now + FrameMs
    /\ phase' = [i \in 1..cards |-> PhaseAt(animationDelay[i], now')]
    /\ visual' = [i \in 1..cards |-> VisualAt(animationDelay[i], now')]
    /\ UNCHANGED <<cards, override, pc, gridArea, animationDelay>>
    /\ UNCHANGED reducerVars

(***************************************************************************)
(* The useReducer counter.  JavaScript values: a number, NaN, a string,    *)
(* or the object {count: v}.                                               *)
(***************************************************************************)
Num(k) == [t |-> "number", v |-> k]
NaN == [t |-> "NaN"]
Str(s) == [t |-> "string", v |-> s]
Obj(c) == [t |-> "object", count |-> c]

IsNum(x) == x.t = "number"

\* x + 1: an object or a string concatenates
JsPlusOne(x) ==
    IF IsNum(x) THEN Num(x.v + 1)
    ELSE IF x.t = "NaN" THEN NaN
    ELSE IF x.t = "string" THEN Str("string1")
    ELSE Str("[object Object]1")

\* x - 1: ToNumber of an object or of these strings is NaN
JsMinusOne(x) ==
    IF IsNum(x) THEN Num(x.v - 1) ELSE NaN

Throws == [t |-> "throw"]

reducer(s, type) ==
    CASE type = "increment" -> Obj(JsPlusOne(s))
      [] type = "decrement" -> Obj(JsMinusOne(s))
      [] OTHER -> Throws

ActionTypes == {"increment", "decrement", "reset"}

ReducerInit ==
    /\ state = Num(0)
    /\ nInc = 0
    /\ nDec = 0
    /\ threw = FALSE

Dispatch(type) ==
    /\ ~threw
    /\ nInc + nDec < MaxDispatch
    /\ LET r == reducer(state, type)
       IN  IF r.t = "throw"
           THEN /\ threw' = TRUE
                /\ UNCHANGED <<state, nInc, nDec>>
           ELSE /\ state' = r
                /\ nInc' = IF type = "increment" THEN nInc + 1 ELSE nInc
                /\ nDec' = IF type = "decrement" THEN nDec + 1 ELSE nDec
                /\ UNCHANGED threw
    /\ UNCHANGED gridVars

(***************************************************************************)
(* Specifications.                                                         *)
(***************************************************************************)
Init == GridInit /\ ReducerInit

Next == ResolveStyle \/ Frame

Spec == Init /\ [][Next]_vars

\* the browser resolves styles and keeps producing frames while an
\* animation is outstanding
FairSpec == Spec /\ WF_vars(ResolveStyle) /\ WF_vars(Frame)

ReducerStart ==
    /\ ReducerInit
    /\ cards = 1
    /\ override = Unset
    /\ pc = "loaded"
    /\ gridArea = << >>
    /\ animationDelay = << >>
    /\ now = 0
    /\ phase = << >>
    /\ visual = << >>

ReducerNext == \E type \in ActionTypes : Dispatch(type)

ReducerSpec == ReducerStart /\ [][ReducerNext]_vars

(***************************************************************************)
(* Properties.                                                             *)
(***************************************************************************)
Rendered == pc = "rendered"
Unit == StaggerDelay(override)
Positions == 1..cards
\* a card past the twelve positional rules that is not the last child
OutOfRange(i) == i > 12 /\ i # cards
FixedLabels == <<"a", "b", "c", "d", "e", "f", "g", "h", "i", "j", "k", "l">>

\* C1 as stated: for a positive unit every card's delay, the last card's
\* included, is its position times the unit, so delay grows strictly with
\* position.
C1_DelayIsPositionTimesUnit ==
    (Rendered /\ Unit > 0) =>
        /\ \A i \in Positions : animationDelay[i] = i * Unit
        /\ \A i, j \in Positions : i < j => animationDelay[i] < animationDelay[j]

\* C1 amended: for a positive unit the delay is position times unit for the
\* cards at positions 1..12 that are not the last child; the last child's
\* delay is 13 times the unit whatever the count (5 cards at 50ms: 650ms,
\* and position times unit only when there are 13 cards); a card at 13..N-1
\* has delay 0; delay grows strictly with position over the cards that are
\* not at 13..N-1.
C1_DelayByRule ==
    (Rendered /\ Unit > 0) =>
        /\ \A i \in Positions :
              /\ (i <= 12 /\ i # cards) => animationDelay[i] = i * Unit
              /\ i = cards => animationDelay[i] = 13 * Unit
              /\ OutOfRange(i) => animationDelay[i] = 0
        /\ \A i, j \in Positions :
              (i < j /\ ~OutOfRange(i) /\ ~OutOfRange(j))
                  => animationDelay[i] < animationDelay[j]
        /\ (cards = 5 /\ Unit = 50) => animationDelay[5] = 650
        /\ cards = 13 => animationDelay[13] = 13 * Unit

C1_Witness ==
    /\ Rendered
    /\ cards = 5
    /\ override = <<50>>
    /\ animationDelay[4] = 200
    /\ animationDelay[5] = 650

\* C2: the last child's grid-area is the star area for every count of
\* cards, also when a positional rule matches it too.
C2_LastChildIsStar ==
    Rendered => gridArea[cards] = "star"

C2_Witness ==
    /\ Rendered
    /\ cards = 5
    /\ gridArea[4] = "d"
    /\ gridArea[5] = "star"

\* C3: with 13 cards or more, the card at each position 1..12 has the
\* label of that position in a..l; with 13 cards and a 100ms unit, card 1
\* has a and 100ms, card 12 has l and 1200ms, card 13 has star and 1300ms.
C3_PositionalLabels ==
    Rendered =>
        /\ cards >= 13 => \A i \in 1..12 : gridArea[i] = FixedLabels[i]
        /\ (cards = 13 /\ Unit = 100) =>
              /\ gridArea[1] = "a" /\ animationDelay[1] = 100
              /\ gridArea[12] = "l" /\ animationDelay[12] = 1200
              /\ gridArea[13] = "star" /\ animationDelay[13] = 1300

C3_Witness ==
    /\ Rendered
    /\ cards = 13
    /\ override = <<100>>
    /\ gridArea[12] = "l"
    /\ animationDelay[13] = 1300

\* C4 as stated: for a positive unit the delays never decrease with
\* position over all of 1..N, and grow strictly up to position 12.
C4_DelayMonotoneEverywhere ==
    (Rendered /\ Unit > 0) =>
        \A i, j \in Positions :
            i < j => /\ animationDelay[i] <= animationDelay[j]
                     /\ j <= 12 => animationDelay[i] < animationDelay[j]

\* C4 amended: for a positive unit and at most 13 cards the delays grow
\* strictly with position over all of 1..N; with more than 13 cards they
\* grow strictly over positions 1..12 only: the cards at 13..N-1 have delay
\* 0, below every earlier card's, and the last child has the largest.
C4_DelayMonotoneUpTo13 ==
    (Rendered /\ Unit > 0) =>
        /\ cards <= 13 =>
              \A i, j \in Positions : i < j => animationDelay[i] < animationDelay[j]
        /\ cards > 13 =>
              /\ \A i, j \in 1..12 : i < j => animationDelay[i] < animationDelay[j]
              /\ \A i \in Positions :
                    OutOfRange(i) => /\ animationDelay[i] = 0
                                     /\ animationDelay[i] < animationDelay[12]
              /\ \A i \in Positions : animationDelay[i] <= animationDelay[cards]

C4_Witness ==
    /\ Rendered
    /\ cards = 14
    /\ Unit > 0
    /\ animationDelay[12] = 12 * Unit
    /\ animationDelay[13] < animationDelay[12]

\* C5 as stated: a card at an out-of-range position is never rendered
\* without a region of the template (it is reported instead).
C5_OutOfRangeNeverRendered ==
    \A i \in Positions :
        (Rendered /\ OutOfRange(i)) => gridArea[i] \in AreaNames

\* C5 amended: a card at an out-of-range position is rendered and nothing is
\* reported: no rule gives it an area, so its grid-area stays auto and it is
\* placed in a cell outside the 4x4 template, and its animation starts with
\* delay 0.
C5_OutOfRangeAutoPlaced ==
    \A i \in Positions :
        (Rendered /\ OutOfRange(i)) =>
            /\ gridArea[i] = "auto"
            /\ Placement(i, gridArea) \cap TemplateCells = {}
            /\ animationDelay[i] = 0
            /\ phase[i] # "pending"

C5_Witness ==
    /\ Rendered
    /\ cards = 15
    /\ gridArea[13] = "auto"
    /\ gridArea[14] = "auto"
    /\ Placement(14, gridArea) = {<<5, 2>>}

\* C6 as stated: with no unit configured, or a unit that is not positive,
\* the delays are computed with 100ms.
C6_NonPositiveUnitDefaults ==
    (Rendered /\ (override = Unset \/ override[1] <= 0)) =>
        \A i \in Positions :
            (i <= 12 /\ i # cards) => animationDelay[i] = i * 100

\* C6 amended: with no unit configured the delays are computed with 100ms;
\* a configured unit is used as it is, also when it is zero or negative
\* (the delay is then zero or negative).
C6_DefaultOnlyWhenUnset ==
    Rendered =>
        \A i \in Positions :
            /\ (override = Unset /\ i <= 12 /\ i # cards) => animationDelay[i] = i * 100
            /\ (override = Unset /\ i = cards) => animationDelay[i] = 1300
            /\ (override # Unset /\ i <= 12 /\ i # cards)
                  => animationDelay[i] = i * override[1]
            /\ (override # Unset /\ override[1] <= 0) => animationDelay[i] <= 0

C6_Witness ==
    /\ Rendered
    /\ override = Unset
    /\ cards = 3
    /\ animationDelay[1] = 100
    /\ animationDelay[2] = 200

\* C7: the template is 4x4 and names exactly 13 areas; each of a..l covers
\* one cell, star covers four cells that form a 2x2 block, every cell is
\* named, and only the last child is given the star area.
C7_Template ==
    /\ TemplateRows = 4
    /\ \A r \in 1..4 : Len(GridTemplateAreas[r]) = 4
    /\ Cardinality(TemplateCells) = 16
    /\ Cardinality(AreaNames) = 13
    /\ AreaNames = {FixedLabels[k] : k \in 1..12} \cup {"star"}
    /\ \A k \in 1..12 : Cardinality(AreaCells(FixedLabels[k])) = 1
    /\ Cardinality(AreaCells("star")) = 4
    /\ \E r, c \in 1..3 : AreaCells("star") = {r, r + 1} \X {c, c + 1}
    /\ Rendered => \A i \in Positions : gridArea[i] = "star" => i = cards

C7_Witness ==
    /\ Rendered
    /\ cards = 13
    /\ gridArea[13] = "star"
    /\ Placement(13, gridArea) = {<<2, 2>>, <<2, 3>>, <<3, 2>>, <<3, 3>>}
    /\ Placement(12, gridArea) = {<<2, 1>>}

\* C8 as stated: for every count of cards, a later card has never left the
\* pending phase while an earlier card is still pending.
C8_RevealInOrder ==
    Rendered =>
        \A i, j \in Positions :
            (i < j /\ phase[j] # "pending") => phase[i] # "pending"

\* C8 amended: with at most 13 cards, a later card has never left the
\* pending phase while an earlier card is still pending; with more, this
\* holds among the cards that are not at positions 13..N-1 (those start at
\* time 0, before card 1 when the unit is positive).
C8_RevealInOrderUpTo13 ==
    Rendered =>
        /\ cards <= 13 =>
              \A i, j \in Positions :
                  (i < j /\ phase[j] # "pending") => phase[i] # "pending"
        /\ \A i, j \in Positions :
              (i < j /\ ~OutOfRange(i) /\ ~OutOfRange(j) /\ phase[j] # "pending")
                  => phase[i] # "pending"
        /\ \A i \in Positions : OutOfRange(i) => phase[i] # "pending"

C8_Witness ==
    /\ Rendered
    /\ cards = 13
    /\ phase[1] = "finished"
    /\ phase[6] = "running"
    /\ phase[13] = "pending"

\* C9: a card shows the from keyframe (opacity 0, scale 0.3, hue-rotate
\* 180deg) for as long as its delay has not elapsed, and is pending exactly
\* then; its animation runs for 700ms from the end of the delay; once it has
\* left pending it never is pending again, and once finished it stays
\* finished; every card finishes, showing opacity 1, scale 1, hue-rotate 0.
C9_StateOk ==
    Rendered =>
        \A i \in Positions :
            /\ phase[i] \in {"pending", "running", "finished"}
            /\ phase[i] = "pending" <=> now < animationDelay[i]
            /\ phase[i] = "pending" =>
                  visual[i] = [opacity |-> 0, scale |-> 30, hue |-> 180]
            /\ phase[i] = "running" <=>
                  (animationDelay[i] <= now /\ now < animationDelay[i] + 700)
            /\ phase[i] = "finished" =>
                  visual[i] = [opacity |-> 100, scale |-> 100, hue |-> 0]

C9_StepOk ==
    \A i \in DOMAIN phase :
        /\ phase[i] # "pending" => phase'[i] # "pending"
        /\ phase[i] = "finished" => phase'[i] = "finished"

C9_AllFinished ==
    /\ Rendered
    /\ \A i \in Positions :
          /\ phase[i] = "finished"
          /\ visual[i] = [opacity |-> 100, scale |-> 100, hue |-> 0]

C9_OneShotReveal ==
    /\ []C9_StateOk
    /\ [][C9_StepOk]_vars
    /\ <>[]C9_AllFinished

C9_Witness ==
    /\ Rendered
    /\ cards = 13
    /\ Unit = 100
    /\ now = 1000
    /\ phase[2] = "finished"
    /\ phase[10] = "running"
    /\ phase[11] = "pending"
    /\ visual[11] = [opacity |-> 0, scale |-> 30, hue |-> 180]

\* C10: the reducer's state is always a plain number, the count of
\* 'increment' actions minus the count of 'decrement' actions.
C10_StateIsCount ==
    /\ state.t = "number"
    /\ state.v = nInc - nDec
====
